---- MODULE Spec2Model ----
(***************************************************************************)
(* Bearer-token validation of the API gateway (app/auth/azure_ad.py):      *)
(* the two lru_cache-memoized provider documents (OpenID configuration and *)
(* JWKS), key lookup by kid, the audience x issuer verification loop of    *)
(* validate_jwt, and the FastAPI dependency get_current_user_claims.       *)
(*                                                                         *)
(* Spec     : one request at a time.  get_current_user_claims is an        *)
(*            `async def` with no await in it, so the event loop runs each *)
(*            request to its end before it starts the next one.            *)
(* SpecConc : several threads call get_jwks(settings) concurrently.        *)
(* SpecProject : build_user_info_from_claims applied to a claims dict, as  *)
(*            the /auth/me route does with the validated claims.           *)
(***************************************************************************)
EXTENDS Integers, Sequences, FiniteSets, TLC

VARIABLES
    settings,      \* the AzureADSettings object returned by get_settings()
    now,           \* the wall clock, read by every jwt.decode call
    openid_cache,  \* lru_cache of get_openid_config: {} or {document}
    jwks_cache,    \* lru_cache of get_jwks: {} or {key set}
    pc,            \* where each caller is
    entry,         \* what each caller called: the dependency or get_jwks
    tok,           \* validate_jwt's token
    jwks,          \* validate_jwt's local jwks (what get_jwks returned)
    attempt,       \* index of the (aud, iss) pair the loop is at
    last_error,    \* validate_jwt's last_error (message of the JWTError)
    gets,          \* outbound GETs this call has issued, per document
    started,       \* the clock when the call began
    sampled,       \* the clock the first jwt.decode of the call read
    outcome,       \* what the call returned or raised
    lru_openid,    \* get_openid_config's lru_cache, by the settings object passed
    lru_jwks,      \* get_jwks' lru_cache, by the settings object passed
    arg,           \* the settings object a call of get_jwks was given
    url,           \* the URL of the GET a call has in flight
    raw_claims,    \* the claims dict handed to build_user_info_from_claims
    user_info      \* what build_user_info_from_claims returned

tenant_vars == << lru_openid, lru_jwks, arg, url >>

vars == << tenant_vars, raw_claims, user_info, settings, now, openid_cache, jwks_cache, pc, entry, tok, jwks,
           attempt, last_error, gets, started, sampled, outcome >>

----------------------------------------------------------------------------
(* Bounds *)

MaxClock == 1
NThreads == 2
MaxList == 2

(* Python values *)

None == "<None>"
Falsy(x) == x \in {None, ""}
EmptyDict == [k \in {} |-> None]
Get(d, k) == IF k \in DOMAIN d THEN d[k] ELSE None

----------------------------------------------------------------------------
(* AzureADSettings.__init__ *)

TenantId == "tid"
ClientId == "cid"
DefaultIssuer == "https://login.microsoftonline.com/" \o TenantId \o "/v2.0"
DefaultOpenidConfigUrl ==
    "https://login.microsoftonline.com/" \o TenantId
        \o "/v2.0/.well-known/openid-configuration"

\* The environments the model starts from: an Application ID URI as the
\* audience and no AZURE_AD_JWKS_URI, or the defaults with an explicit
\* AZURE_AD_JWKS_URI; and two incomplete ones, without AZURE_AD_TENANT_ID
\* and with an empty AZURE_AD_CLIENT_ID.
Environments ==
    { [AZURE_AD_TENANT_ID |-> TenantId, AZURE_AD_CLIENT_ID |-> ClientId,
       AZURE_AD_AUDIENCE |-> "api://cid"],
      [AZURE_AD_TENANT_ID |-> TenantId, AZURE_AD_CLIENT_ID |-> ClientId,
       AZURE_AD_JWKS_URI |-> "https://idp/keys"],
      [AZURE_AD_CLIENT_ID |-> ClientId],
      [AZURE_AD_TENANT_ID |-> TenantId, AZURE_AD_CLIENT_ID |-> ""] }

EnvGet(env, k, default) == IF k \in DOMAIN env THEN env[k] ELSE default

\* What get_settings() stands for when AzureADSettings() raises its
\* RuntimeError: no object exists, and lru_cache keeps nothing, so every
\* call of get_settings() raises again.
NoSettings ==
    [ tenant_id |-> None, client_id |-> None, issuer |-> None,
      openid_config_url |-> None, jwks_uri |-> None, audience |-> None ]

AzureADSettings(env) ==
    IF Falsy(EnvGet(env, "AZURE_AD_TENANT_ID", None))
           \/ Falsy(EnvGet(env, "AZURE_AD_CLIENT_ID", None))
    THEN NoSettings
    ELSE
    [ tenant_id |-> env.AZURE_AD_TENANT_ID,
      client_id |-> env.AZURE_AD_CLIENT_ID,
      issuer |-> EnvGet(env, "AZURE_AD_ISSUER", DefaultIssuer),
      openid_config_url |->
          EnvGet(env, "AZURE_AD_OPENID_CONFIG_URL", DefaultOpenidConfigUrl),
      jwks_uri |-> EnvGet(env, "AZURE_AD_JWKS_URI", None),
      audience |-> EnvGet(env, "AZURE_AD_AUDIENCE", env.AZURE_AD_CLIENT_ID) ]

----------------------------------------------------------------------------
(* What the identity provider can answer *)

\* OpenID configuration documents: with and without the jwks_uri field.
OpenidDocs == { [issuer |-> DefaultIssuer, jwks_uri |-> "https://idp/keys"],
                [issuer |-> DefaultIssuer] }

\* Published key sets, before and after a rotation that adds key k2.
KeySetOld == [keys |-> << [kid |-> "k1", n |-> "m1"] >>]
KeySetNew == [keys |-> << [kid |-> "k2", n |-> "m2"], [kid |-> "k1", n |-> "m1"] >>]
KeySets == {KeySetOld, KeySetNew}

\* Two settings objects, for two tenants, neither with AZURE_AD_JWKS_URI.
\* An object is told from another by its values.
TenantA ==
    AzureADSettings([AZURE_AD_TENANT_ID |-> TenantId, AZURE_AD_CLIENT_ID |-> ClientId,
                     AZURE_AD_AUDIENCE |-> "api://cid"])
TenantB ==
    AzureADSettings(
        [AZURE_AD_TENANT_ID |-> "tid2", AZURE_AD_CLIENT_ID |-> "cid2",
         AZURE_AD_ISSUER |-> "https://login.microsoftonline.com/tid2/v2.0",
         AZURE_AD_OPENID_CONFIG_URL |->
             "https://login.microsoftonline.com/tid2/v2.0/.well-known/openid-configuration"])
TenantSettings == {TenantA, TenantB}

\* What the second tenant's endpoints publish.
OpenidDocB ==
    [issuer |-> "https://login.microsoftonline.com/tid2/v2.0",
     jwks_uri |-> "https://idp2/keys"]
KeySetB == [keys |-> << [kid |-> "kb", n |-> "mb"] >>]

\* An HTTP exchange: ok is FALSE when the transport or raise_for_status()
\* raises, and json is what resp.json() returns otherwise.
HttpFailure == [ok |-> FALSE, json |-> {}]
HttpOk(body) == [ok |-> TRUE, json |-> {body}]
Json(resp) == CHOOSE body \in resp.json : TRUE

----------------------------------------------------------------------------
(* Tokens.  A token is its header dict, its payload dict and the key whose  *)
(* RS256 signature it carries; `parses` is FALSE for a string such as       *)
(* abc.def.ghi whose header segment is not base64url-encoded JSON.          *)

V1Issuer(tenant_id) == "https://sts.windows.net/" \o tenant_id \o "/"

Opt(k, values) == {EmptyDict} \cup { k :> v : v \in values }

\* aud is kept in the list form jose's _validate_aud normalises a string to.
Payloads ==
    { p \in { i @@ a @@ e @@ n @@ h :
                i \in Opt("iss", {DefaultIssuer, V1Issuer(TenantId), "https://evil/"}),
                a \in Opt("aud", { <<"api://cid">>, <<ClientId>>, <<"api://other">>,
                                   <<"api://other", ClientId>> }),
                e \in Opt("exp", {0, 1}),
                n \in Opt("nbf", {1}),
                h \in Opt("at_hash", {"h"}) } :
        ~ ("nbf" \in DOMAIN p /\ "at_hash" \in DOMAIN p) }

Headers ==
    { k @@ a : k \in Opt("kid", {"k1", "k2"}), a \in {"alg" :> "RS256"} }
        \cup { ("kid" :> "k1") @@ ("alg" :> "HS256"), ("kid" :> "") @@ ("alg" :> "RS256") }

GoodPayload ==
    ("iss" :> DefaultIssuer) @@ ("aud" :> <<ClientId>>) @@ ("exp" :> 1)

Unparseable ==
    [parses |-> FALSE, header |-> EmptyDict, signer |-> "", payload |-> EmptyDict]

\* Every payload is tried on the tokens that reach the verification loop; a
\* token without a usable kid or with another alg carries GoodPayload.
Tokens ==
    {Unparseable}
    \cup { t \in [parses : {TRUE}, header : Headers, signer : {"m1", "m2"},
                  payload : Payloads] :
             (Falsy(Get(t.header, "kid")) \/ t.header.alg # "RS256")
                 => (t.signer = "m1" /\ t.payload = GoodPayload) }

\* What tok holds while validate_jwt is not running.
NoToken ==
    [parses |-> FALSE, header |-> EmptyDict, signer |-> "<none>", payload |-> EmptyDict]

----------------------------------------------------------------------------
(* python-jose, as validate_jwt and _get_signing_key call it *)

\* jwt.get_unverified_header(token): the header dict, or JWTError.
get_unverified_header(token) ==
    IF token.parses THEN [ok |-> TRUE, value |-> token.header]
    ELSE [ok |-> FALSE, value |-> EmptyDict]

Pass == [ok |-> TRUE, msg |-> ""]
Fail(msg) == [ok |-> FALSE, msg |-> msg]

\* Mutant: the signature is verified with whatever alg the header declares.
verify_signature_HeaderAlg(token, key, algorithms) ==
    IF token.signer # key.n
        THEN Fail("Signature verification failed.")
    ELSE Pass

\* jws.verify: the header's alg must be one of `algorithms`, and the
\* signature must verify under the key built from the JWK.
verify_signature(token, key, algorithms) ==
    IF Get(token.header, "alg") \notin algorithms
        THEN Fail("The specified alg value is not allowed")
    ELSE IF token.signer # key.n
        THEN Fail("Signature verification failed.")
    ELSE Pass

validate_nbf(claims, t) ==
    IF "nbf" \in DOMAIN claims /\ claims.nbf > t
        THEN Fail("The token is not yet valid (nbf)") ELSE Pass

validate_exp(claims, t) ==
    IF "exp" \in DOMAIN claims /\ claims.exp < t
        THEN Fail("Signature has expired.") ELSE Pass

Elems(list) == { list[i] : i \in DOMAIN list }

validate_aud(claims, audience) ==
    IF "aud" \notin DOMAIN claims THEN Pass
    ELSE IF audience \notin Elems(claims.aud) THEN Fail("Invalid audience")
    ELSE Pass

validate_iss(claims, issuer) ==
    IF issuer # None /\ Get(claims, "iss") # issuer
        THEN Fail("Invalid issuer") ELSE Pass

validate_at_hash(claims) ==
    IF "at_hash" \in DOMAIN claims
        THEN Fail("No access_token provided to compare against at_hash claim.")
    ELSE Pass

\* The first failing check of a sequence of check results, or Pass.
RECURSIVE FirstFailure(_)
FirstFailure(checks) ==
    IF checks = << >> THEN Pass
    ELSE IF ~ Head(checks).ok THEN Head(checks)
    ELSE FirstFailure(Tail(checks))

\* Mutant: decode called with options={"verify_exp": False}.
jwt_decode_NoExp(token, key, aud, iss, t) ==
    FirstFailure(<< verify_signature(token, key, {"RS256"}),
                    validate_nbf(token.payload, t),
                    validate_aud(token.payload, aud),
                    validate_iss(token.payload, iss),
                    validate_at_hash(token.payload) >>)

\* jwt.decode(token, key, algorithms=["RS256"], audience=aud, issuer=iss)
\* at clock value t: the claims, or the JWTError of the first failing check.
jwt_decode(token, key, aud, iss, t) ==
    FirstFailure(<< verify_signature(token, key, {"RS256"}),
                    validate_nbf(token.payload, t),
                    validate_exp(token.payload, t),
                    validate_aud(token.payload, aud),
                    validate_iss(token.payload, iss),
                    validate_at_hash(token.payload) >>)

----------------------------------------------------------------------------
(* _get_signing_key and validate_jwt's candidate lists *)

\* Mutant: the first key of the set, whatever its kid.
FindKey_First(keys, kid) == IF keys = << >> THEN << >> ELSE << Head(keys) >>

RECURSIVE FindKey(_, _)
FindKey(keys, kid) ==
    IF keys = << >> THEN << >>
    ELSE IF Head(keys).kid = kid THEN << Head(keys) >>
    ELSE FindKey(Tail(keys), kid)

\* HTTPException(status_code=401, detail=...); details are spelled without
\* their accents.
Unauthorized(detail) == [kind |-> "HTTPException", detail |-> detail, claims |-> {}]
Raised(kind) == [kind |-> kind, detail |-> "", claims |-> {}]
Returned(value) == [kind |-> "return", detail |-> "", claims |-> {value}]
NoOutcome == [kind |-> "", detail |-> "", claims |-> {}]

\* The JWK for the token's kid as << key >>, or the exception as an outcome.
get_signing_key(token, keyset) ==
    LET headers == get_unverified_header(token)
        kid == Get(headers.value, "kid")
    IN  IF ~ headers.ok THEN [ok |-> FALSE, key |-> << >>, raises |-> Raised("JWTError")]
        ELSE IF Falsy(kid)
            THEN [ok |-> FALSE, key |-> << >>,
                  raises |-> Unauthorized("Token sin 'kid' en el encabezado")]
        ELSE IF FindKey(keyset.keys, kid) = << >>
            THEN [ok |-> FALSE, key |-> << >>,
                  raises |-> Unauthorized("No se encontro clave de firma para el token")]
        ELSE [ok |-> TRUE, key |-> FindKey(keyset.keys, kid), raises |-> NoOutcome]

allowed_issuers(s) == << s.issuer, V1Issuer(s.tenant_id) >>
allowed_audiences(s) == << s.audience, s.client_id >>

\* The pair the nested loop is at on its i-th pass (audiences outer, issuers
\* inner), i = 0 .. 3.
\* Mutants: only the configured issuer is tried; no issuer is passed.
PairIss_ConfiguredOnly(s, i) == s.issuer
PairIss_NotPassed(s, i) == None
\* Mutant: the legacy issuer is tried before the configured one.
PairIss_LegacyFirst(s, i) ==
    allowed_issuers(s)[Len(allowed_issuers(s)) - (i % Len(allowed_issuers(s)))]

PairAud(s, i) == allowed_audiences(s)[(i \div Len(allowed_issuers(s))) + 1]
PairIss(s, i) == allowed_issuers(s)[(i % Len(allowed_issuers(s))) + 1]
NPairs(s) == Len(allowed_audiences(s)) * Len(allowed_issuers(s))

----------------------------------------------------------------------------
(* build_user_info_from_claims and its helpers *)

\* The values a decoded claim can hold, each with its Python type.
PyNone == [t |-> "NoneType"]
PyStr(s) == [t |-> "str", s |-> s]
PyInt(n) == [t |-> "int", n |-> n]
PyList(items) == [t |-> "list", items |-> items]
\* An exception on its way out of the function that raised it.
PyRaise(type) == [t |-> "raise", type |-> type]

\* bool(x)
Truthy(x) ==
    CASE x.t = "str" -> x.s # ""
      [] x.t = "int" -> x.n # 0
      [] x.t = "list" -> x.items # << >>
      [] OTHER -> FALSE
\* isinstance(x, list)
IsList(x) == x.t = "list"
\* str(x), for the scalars a group entry can be.
Str(x) ==
    CASE x.t = "str" -> x
      [] x.t = "int" -> PyStr(ToString(x.n))
      [] OTHER -> PyStr("None")
\* d.get(k)
PyGet(d, k) == IF k \in DOMAIN d THEN d[k] ELSE PyNone
\* a or b
Or(a, b) == IF Truthy(a) THEN a ELSE b
\* l[i], i counted from 0
Item(l, i) == IF i < Len(l.items) THEN l.items[i + 1] ELSE PyRaise("IndexError")

\* Mutant: upn is looked at before preferred_username.
EmailKeys_UpnFirst == << "upn", "preferred_username", "email" >>

\* for key in ("preferred_username", "upn", "email")
EmailKeys == << "preferred_username", "upn", "email" >>

\* The loop of _extract_email_from_claims: << value >> for the first key
\* of `keys` whose value is truthy, << >> when the loop ends without one.
RECURSIVE FirstTruthy(_, _)
FirstTruthy(claims, keys) ==
    IF keys = << >> THEN << >>
    ELSE IF Truthy(PyGet(claims, Head(keys))) THEN << PyGet(claims, Head(keys)) >>
    ELSE FirstTruthy(claims, Tail(keys))

\* Mutant: emails[0] is taken of every list, the empty one included.
extract_email_from_claims_Unguarded(claims) ==
    LET found == FirstTruthy(claims, EmailKeys)
        emails == PyGet(claims, "emails")
    IN  IF found # << >> THEN found[1]
        ELSE IF IsList(emails) THEN Item(emails, 0)
        ELSE PyNone

extract_email_from_claims(claims) ==
    LET found == FirstTruthy(claims, EmailKeys)
        emails == PyGet(claims, "emails")
    IN  IF found # << >> THEN found[1]
        ELSE IF IsList(emails) /\ Truthy(emails) THEN Item(emails, 0)
        ELSE PyNone

\* Mutant: a groups claim that is not a list is taken as a single group.
extract_groups_from_claims_Scalar(claims) ==
    LET groups == Or(PyGet(claims, "groups"), PyList(<< >>))
    IN  IF IsList(groups)
        THEN PyList([i \in 1 .. Len(groups.items) |-> Str(groups.items[i])])
        ELSE PyList(<< Str(groups) >>)

extract_groups_from_claims(claims) ==
    LET groups == Or(PyGet(claims, "groups"), PyList(<< >>))
    IN  IF IsList(groups)
        THEN PyList([i \in 1 .. Len(groups.items) |-> Str(groups.items[i])])
        ELSE PyList(<< >>)

\* Mutant: sub is preferred over oid.
build_user_info_from_claims_SubFirst(claims) ==
    LET email == extract_email_from_claims(claims)
        groups == extract_groups_from_claims(claims)
    IN  IF email.t = "raise" THEN email
        ELSE IF groups.t = "raise" THEN groups
        ELSE [ id |-> Or(PyGet(claims, "sub"), PyGet(claims, "oid")),
               name |-> PyGet(claims, "name"),
               email |-> email,
               groups |-> groups,
               raw_claims |-> claims ]

\* The dict build_user_info_from_claims returns, or the exception one of
\* its helpers let out.
build_user_info_from_claims(claims) ==
    LET email == extract_email_from_claims(claims)
        groups == extract_groups_from_claims(claims)
    IN  IF email.t = "raise" THEN email
        ELSE IF groups.t = "raise" THEN groups
        ELSE [ id |-> Or(PyGet(claims, "oid"), PyGet(claims, "sub")),
               name |-> PyGet(claims, "name"),
               email |-> email,
               groups |-> groups,
               raw_claims |-> claims ]

\* The claims dicts the projection is applied to.
Lists(S, n) == UNION { [1 .. k -> S] : k \in 0 .. n }
ClaimsMaps ==
    { o @@ s @@ n @@ pu @@ u @@ e @@ es @@ g :
        o \in Opt("oid", {PyStr(""), PyStr("o1")}),
        s \in Opt("sub", {PyStr(""), PyStr("s1")}),
        n \in Opt("name", {PyStr("Ann")}),
        pu \in Opt("preferred_username", {PyStr(""), PyStr("a@b.com")}),
        u \in Opt("upn", {PyStr("u@b.com")}),
        e \in Opt("email", {PyStr("e@b.com")}),
        es \in Opt("emails",
                   {PyStr("x@b.com")}
                       \cup { PyList(l) :
                                l \in Lists({PyStr("x@b.com"), PyStr("y@b.com")},
                                            MaxList) }),
        g \in Opt("groups",
                  {PyStr("g1"), PyInt(0)}
                      \cup { PyList(l) : l \in Lists({PyStr("g1"), PyInt(7)}, MaxList) }) }

----------------------------------------------------------------------------
(* State machine *)

EventLoop == 1
Threads == 1 .. NThreads

\* Authorization header values.  A header that is present is the text
\*     scheme            when `blank` is FALSE,
\*     scheme " " rest   when `blank` is TRUE,
\* where scheme holds no blank and rest is a token (or nothing), with
\* blanks around it when `pad` is TRUE.  Every token is sent as
\* "Bearer <token>"; the other spellings carry one token or none.
Schemes == {"Bearer", "bearer", "BEARER", "Basic", ""}
AuthHeaders ==
    { [present |-> FALSE, scheme |-> "", blank |-> FALSE, pad |-> FALSE, token |-> {}] }
    \cup { h \in [present : {TRUE}, scheme : Schemes, blank : BOOLEAN, pad : BOOLEAN,
                   token : { {}, {[parses |-> TRUE,
                                   header |-> ("kid" :> "k1") @@ ("alg" :> "RS256"),
                                   signer |-> "m1", payload |-> GoodPayload]} }] :
               ~ h.blank => (~ h.pad /\ h.token = {}) }
    \cup { [present |-> TRUE, scheme |-> "Bearer", blank |-> TRUE, pad |-> FALSE,
            token |-> {t}] : t \in Tokens }

\* s.lower()
Lower(s) == IF s \in {"Bearer", "bearer", "BEARER"} THEN "bearer"
            ELSE IF s = "Basic" THEN "basic" ELSE s
\* not auth_header
HeaderMissing(h) == ~ h.present \/ (h.scheme = "" /\ ~ h.blank)
\* auth_header.lower().startswith("bearer ")
StartsWithBearer(h) == Lower(h.scheme) = "bearer" /\ h.blank
\* auth_header.split(" ", 1)[1].strip(): nothing, or the token
SplitStrip(h) == h.token

NoGets == [openid |-> 0, jwks |-> 0]
NoUrl == ""

\* No claims dict has been projected.
NoClaims == [k \in {} |-> PyNone]

Init ==
    /\ settings \in { AzureADSettings(env) : env \in Environments }
    /\ lru_openid = [s \in TenantSettings |-> {}]
    /\ lru_jwks = [s \in TenantSettings |-> {}]
    /\ arg = [p \in Threads |-> NoSettings]
    /\ url = [p \in Threads |-> NoUrl]
    /\ raw_claims = NoClaims
    /\ user_info = PyNone
    /\ now = 0
    /\ openid_cache = {}
    /\ jwks_cache = {}
    /\ pc = [p \in Threads |-> "idle"]
    /\ entry = [p \in Threads |-> "none"]
    /\ tok = [p \in Threads |-> NoToken]
    /\ jwks = [p \in Threads |-> {}]
    /\ attempt = [p \in Threads |-> 0]
    /\ last_error = [p \in Threads |-> None]
    /\ gets = [p \in Threads |-> NoGets]
    /\ started = [p \in Threads |-> 0]
    /\ sampled = [p \in Threads |-> 0]
    /\ outcome = [p \in Threads |-> NoOutcome]

\* The call of p ends: it returns or raises `result`.
Finish(p, result) ==
    /\ pc' = [pc EXCEPT ![p] = "done"]
    /\ outcome' = [outcome EXCEPT ![p] = result]

\* lru_cache stores the result of a call that returned, unless the key was
\* added while the call ran.
Store(cache, value) == IF cache = {} THEN {value} ELSE cache

\* Mutant: a failed GET is swallowed and an empty result is memoized.
Memoize_Failure(cache, resp) ==
    IF resp.ok THEN Store(cache, Json(resp)) ELSE Store(cache, [keys |-> << >>])

\* The cache after the decorated function's GET has ended with `resp`: a
\* call that raised leaves no entry.
Memoize(cache, resp) == IF resp.ok THEN Store(cache, Json(resp)) ELSE cache

\* get_jwks has returned `keyset` to its caller: to the thread that called
\* it, or to validate_jwt(token, settings), which goes on with
\* _get_signing_key and enters the loop over the (aud, iss) pairs.
JwksReturned(p, called, token, keyset) ==
    /\ attempt' = [attempt EXCEPT ![p] = 0]
    /\ last_error' = [last_error EXCEPT ![p] = None]
    /\ IF called = "get_jwks"
       THEN /\ Finish(p, Returned(keyset))
            /\ jwks' = [jwks EXCEPT ![p] = {}]
       ELSE /\ jwks' = [jwks EXCEPT ![p] = {keyset}]
            /\ LET found == get_signing_key(token, keyset)
               IN  IF found.ok
                   THEN /\ pc' = [pc EXCEPT ![p] = "decode"]
                        /\ outcome' = [outcome EXCEPT ![p] = NoOutcome]
                   ELSE Finish(p, found.raises)

\* Mutant: get_jwks without its lru_cache, every call runs the function.
CallGetJwks_Uncached(p, called, token) ==
    /\ jwks' = [jwks EXCEPT ![p] = {}]
    /\ attempt' = [attempt EXCEPT ![p] = 0]
    /\ last_error' = [last_error EXCEPT ![p] = None]
    /\ outcome' = [outcome EXCEPT ![p] = NoOutcome]
    /\ IF Falsy(settings.jwks_uri)
       THEN /\ pc' = [pc EXCEPT ![p] = "openid_lookup"]
            /\ gets' = [gets EXCEPT ![p] = NoGets]
       ELSE /\ pc' = [pc EXCEPT ![p] = "jwks_get"]
            /\ gets' = [gets EXCEPT ![p] = [NoGets EXCEPT !.jwks = 1]]

\* Mutant: the key-set URL is always taken from the OpenID configuration.
CallGetJwks_Discover(p, called, token) ==
    IF jwks_cache # {}
    THEN /\ JwksReturned(p, called, token, CHOOSE k \in jwks_cache : TRUE)
         /\ gets' = [gets EXCEPT ![p] = NoGets]
    ELSE /\ jwks' = [jwks EXCEPT ![p] = {}]
         /\ attempt' = [attempt EXCEPT ![p] = 0]
         /\ last_error' = [last_error EXCEPT ![p] = None]
         /\ outcome' = [outcome EXCEPT ![p] = NoOutcome]
         /\ pc' = [pc EXCEPT ![p] = "openid_lookup"]
         /\ gets' = [gets EXCEPT ![p] = NoGets]

\* get_jwks(settings) behind its lru_cache, up to its first outbound call
\* or cache lookup of get_openid_config.
CallGetJwks(p, called, token) ==
    IF jwks_cache # {}
    THEN /\ JwksReturned(p, called, token, CHOOSE k \in jwks_cache : TRUE)
         /\ gets' = [gets EXCEPT ![p] = NoGets]
    ELSE /\ jwks' = [jwks EXCEPT ![p] = {}]
         /\ attempt' = [attempt EXCEPT ![p] = 0]
         /\ last_error' = [last_error EXCEPT ![p] = None]
         /\ outcome' = [outcome EXCEPT ![p] = NoOutcome]
         /\ IF Falsy(settings.jwks_uri)
            THEN /\ pc' = [pc EXCEPT ![p] = "openid_lookup"]
                 /\ gets' = [gets EXCEPT ![p] = NoGets]
            ELSE /\ pc' = [pc EXCEPT ![p] = "jwks_get"]
                 /\ gets' = [gets EXCEPT ![p] = [NoGets EXCEPT !.jwks = 1]]

\* Mutant: the check of the stripped token is gone and the empty string
\* goes on to validate_jwt.
bearer_token_Unchecked(auth_header) ==
    IF HeaderMissing(auth_header) \/ ~ StartsWithBearer(auth_header)
    THEN [token |-> {},
          raises |-> Unauthorized("Falta encabezado Authorization con Bearer token")]
    ELSE IF SplitStrip(auth_header) = {}
        THEN [token |-> {Unparseable}, raises |-> NoOutcome]
    ELSE [token |-> SplitStrip(auth_header), raises |-> NoOutcome]

\* The header checks of get_current_user_claims: the token handed to
\* validate_jwt as {token}, or the 401 raised instead.
bearer_token(auth_header) ==
    IF HeaderMissing(auth_header) \/ ~ StartsWithBearer(auth_header)
    THEN [token |-> {},
          raises |-> Unauthorized("Falta encabezado Authorization con Bearer token")]
    ELSE IF SplitStrip(auth_header) = {}
        THEN [token |-> {}, raises |-> Unauthorized("Token Bearer vacio")]
    ELSE [token |-> SplitStrip(auth_header), raises |-> NoOutcome]

\* The call ends before validate_jwt or get_jwks has run.
Refuse(p, result) ==
    /\ Finish(p, result)
    /\ gets' = [gets EXCEPT ![p] = NoGets]
    /\ jwks' = [jwks EXCEPT ![p] = {}]
    /\ attempt' = [attempt EXCEPT ![p] = 0]
    /\ last_error' = [last_error EXCEPT ![p] = None]

\* A request to /auth/me: Depends(get_settings), which raises when the
\* settings cannot be constructed; then get_current_user_claims(request,
\* settings): the header checks, and validate_jwt up to where get_jwks
\* first leaves the thread.
Request(p, auth_header) ==
    /\ pc[p] = "idle"
    /\ entry' = [entry EXCEPT ![p] = "gateway"]
    /\ started' = [started EXCEPT ![p] = now]
    /\ UNCHANGED sampled
    /\ IF settings = NoSettings
       THEN /\ Refuse(p, Raised("RuntimeError"))
            /\ tok' = [tok EXCEPT ![p] = NoToken]
       ELSE IF bearer_token(auth_header).token = {}
       THEN /\ Refuse(p, bearer_token(auth_header).raises)
            /\ tok' = [tok EXCEPT ![p] = NoToken]
       ELSE LET token == CHOOSE t \in bearer_token(auth_header).token : TRUE
            IN  /\ tok' = [tok EXCEPT ![p] = token]
                /\ CallGetJwks(p, "gateway", token)
    /\ UNCHANGED << tenant_vars, raw_claims, user_info, settings, now, openid_cache, jwks_cache >>

\* A thread calls get_jwks(get_settings()).
GetJwks(p) ==
    /\ pc[p] = "idle"
    /\ entry' = [entry EXCEPT ![p] = "get_jwks"]
    /\ started' = [started EXCEPT ![p] = now]
    /\ UNCHANGED sampled
    /\ IF settings = NoSettings
       THEN Refuse(p, Raised("RuntimeError"))
       ELSE CallGetJwks(p, "get_jwks", NoToken)
    /\ UNCHANGED << tenant_vars, raw_claims, user_info, settings, now, openid_cache, jwks_cache, tok >>

\* get_jwks, from config = get_openid_config(settings) on: the jwks_uri
\* check, then the GET of the key set is sent.
UseConfig(p, config) ==
    IF Falsy(Get(config, "jwks_uri"))
    THEN /\ Finish(p, Raised("RuntimeError"))
         /\ UNCHANGED gets
    ELSE /\ pc' = [pc EXCEPT ![p] = "jwks_get"]
         /\ gets' = [gets EXCEPT ![p].jwks = @ + 1]
         /\ UNCHANGED outcome

\* Mutant: get_openid_config without its lru_cache.
OpenidLookup_Uncached(p) ==
    /\ pc[p] = "openid_lookup"
    /\ pc' = [pc EXCEPT ![p] = "openid_get"]
    /\ gets' = [gets EXCEPT ![p].openid = @ + 1]
    /\ UNCHANGED << tenant_vars, raw_claims, user_info, settings, now, openid_cache, jwks_cache,
                    entry, tok, jwks, attempt, last_error, started, sampled, outcome >>

\* get_openid_config(settings) behind its lru_cache: a hit returns the cached
\* document, a miss sends the GET.
OpenidLookup(p) ==
    /\ pc[p] = "openid_lookup"
    /\ IF openid_cache # {}
       THEN UseConfig(p, CHOOSE d \in openid_cache : TRUE)
       ELSE /\ pc' = [pc EXCEPT ![p] = "openid_get"]
            /\ gets' = [gets EXCEPT ![p].openid = @ + 1]
            /\ UNCHANGED outcome
    /\ UNCHANGED << tenant_vars, raw_claims, user_info, settings, now, openid_cache, jwks_cache, entry, tok, jwks,
                    attempt, last_error, started, sampled >>

\* Mutant: a failed GET of the OpenID configuration is sent again.
OpenidResponse_Retry(p, resp) ==
    /\ pc[p] = "openid_get"
    /\ openid_cache' = Memoize(openid_cache, resp)
    /\ IF ~ resp.ok
       THEN /\ gets' = [gets EXCEPT ![p].openid = @ + 1]
            /\ UNCHANGED << pc, outcome >>
       ELSE UseConfig(p, Json(resp))
    /\ UNCHANGED << tenant_vars, raw_claims, user_info, settings, now, jwks_cache, entry, tok, jwks,
                    attempt, last_error, started, sampled >>

\* The GET of the OpenID configuration ends: raise_for_status or the
\* transport raises, or resp.json() is returned and cached.
OpenidResponse(p, resp) ==
    /\ pc[p] = "openid_get"
    /\ openid_cache' = Memoize(openid_cache, resp)
    /\ IF ~ resp.ok
       THEN /\ Finish(p, Raised("HTTPError"))
            /\ UNCHANGED gets
       ELSE UseConfig(p, Json(resp))
    /\ UNCHANGED << tenant_vars, raw_claims, user_info, settings, now, jwks_cache, entry, tok, jwks, attempt, last_error,
                    started, sampled >>

\* Mutant: a key set without the token's kid is fetched again.
JwksResponse_Refresh(p, resp) ==
    /\ pc[p] = "jwks_get"
    /\ jwks_cache' = Memoize(jwks_cache, resp)
    /\ IF ~ resp.ok
       THEN /\ Finish(p, Raised("HTTPError"))
            /\ UNCHANGED << jwks, attempt, last_error, gets >>
       ELSE IF /\ entry[p] = "gateway"
               /\ ~ Falsy(Get(tok[p].header, "kid"))
               /\ FindKey(Json(resp).keys, Get(tok[p].header, "kid")) = << >>
       THEN /\ gets' = [gets EXCEPT ![p].jwks = @ + 1]
            /\ UNCHANGED << pc, outcome, jwks, attempt, last_error >>
       ELSE /\ JwksReturned(p, entry[p], tok[p], Json(resp))
            /\ UNCHANGED gets
    /\ UNCHANGED << tenant_vars, raw_claims, user_info, settings, now, openid_cache, entry, tok,
                    started, sampled >>

\* The GET of the key set ends: it raises, or resp.json() is returned and
\* cached and the caller of get_jwks goes on.
JwksResponse(p, resp) ==
    /\ pc[p] = "jwks_get"
    /\ jwks_cache' = Memoize(jwks_cache, resp)
    /\ IF ~ resp.ok
       THEN /\ Finish(p, Raised("HTTPError"))
            /\ UNCHANGED << jwks, attempt, last_error >>
       ELSE JwksReturned(p, entry[p], tok[p], Json(resp))
    /\ UNCHANGED << tenant_vars, raw_claims, user_info, settings, now, openid_cache, entry, tok, gets, started, sampled >>

\* Mutant: the error of the first failed pass is kept.
KeepError_First(previous, msg) == IF previous = None THEN msg ELSE previous

\* last_error = e
KeepError(previous, msg) == msg

\* One pass of validate_jwt's loop: jwt.decode with the pair the loop is at.
\* A success returns the claims; a JWTError is kept as last_error, and after
\* the last pair the 401 carrying it is raised.
Decode(p) ==
    /\ pc[p] = "decode"
    /\ LET keyset == CHOOSE k \in jwks[p] : TRUE
           signing_jwk == get_signing_key(tok[p], keyset).key[1]
           r == jwt_decode(tok[p], signing_jwk, PairAud(settings, attempt[p]),
                           PairIss(settings, attempt[p]), now)
       IN  IF r.ok
           THEN /\ Finish(p, Returned(tok[p].payload))
                /\ UNCHANGED << attempt, last_error >>
           ELSE /\ last_error' = [last_error EXCEPT ![p] = KeepError(@, r.msg)]
                /\ IF attempt[p] + 1 < NPairs(settings)
                   THEN /\ attempt' = [attempt EXCEPT ![p] = @ + 1]
                        /\ UNCHANGED << pc, outcome >>
                   ELSE /\ Finish(p, Unauthorized("Token invalido: "
                                                  \o KeepError(last_error[p], r.msg)))
                        /\ UNCHANGED attempt
    /\ sampled' = IF attempt[p] = 0 THEN [sampled EXCEPT ![p] = now] ELSE sampled
    /\ UNCHANGED << tenant_vars, raw_claims, user_info, settings, now, openid_cache, jwks_cache, entry,
                    tok, jwks, gets, started >>

\* The claims dict jwt.decode returned, its values with their Python types.
PyClaims(payload) ==
    [k \in DOMAIN payload |->
        IF k = "aud" THEN PyList([i \in 1 .. Len(payload[k]) |-> PyStr(payload[k][i])])
        ELSE IF k \in {"exp", "nbf"} THEN PyInt(payload[k])
        ELSE PyStr(payload[k])]

\* Mutant: the route builds the user info whatever the dependency did.
read_current_user_Always(p) ==
    /\ pc[p] = "done"
    /\ entry[p] = "gateway"
    /\ user_info = PyNone
    /\ raw_claims' = IF outcome[p].kind = "return"
                     THEN PyClaims(CHOOSE c \in outcome[p].claims : TRUE)
                     ELSE NoClaims
    /\ user_info' = build_user_info_from_claims(raw_claims')
    /\ UNCHANGED << tenant_vars, settings, now, openid_cache, jwks_cache, pc, entry, tok, jwks,
                    attempt, last_error, gets, started, sampled, outcome >>

\* The body of the /auth/me route: it runs once its dependency
\* get_current_user_claims has returned the claims, and builds the user
\* info from them; an exception of the dependency goes to the HTTP layer
\* and the body does not run.
read_current_user(p) ==
    /\ pc[p] = "done"
    /\ entry[p] = "gateway"
    /\ outcome[p].kind = "return"
    /\ user_info = PyNone
    /\ raw_claims' = PyClaims(CHOOSE c \in outcome[p].claims : TRUE)
    /\ user_info' = build_user_info_from_claims(raw_claims')
    /\ UNCHANGED << tenant_vars, settings, now, openid_cache, jwks_cache, pc, entry, tok, jwks,
                    attempt, last_error, gets, started, sampled, outcome >>

\* The call has returned or raised to its caller, the response is sent and
\* the frame is gone.
Return(p) ==
    /\ pc[p] = "done"
    /\ pc' = [pc EXCEPT ![p] = "idle"]
    /\ entry' = [entry EXCEPT ![p] = "none"]
    /\ tok' = [tok EXCEPT ![p] = NoToken]
    /\ jwks' = [jwks EXCEPT ![p] = {}]
    /\ attempt' = [attempt EXCEPT ![p] = 0]
    /\ last_error' = [last_error EXCEPT ![p] = None]
    /\ gets' = [gets EXCEPT ![p] = NoGets]
    /\ started' = [started EXCEPT ![p] = 0]
    /\ sampled' = [sampled EXCEPT ![p] = 0]
    /\ outcome' = [outcome EXCEPT ![p] = NoOutcome]
    /\ raw_claims' = NoClaims
    /\ user_info' = PyNone
    /\ arg' = [arg EXCEPT ![p] = NoSettings]
    /\ url' = [url EXCEPT ![p] = NoUrl]
    /\ UNCHANGED << lru_openid, lru_jwks, settings, now, openid_cache, jwks_cache >>

\* Mutant: the cached documents expire as time passes.
Tick_Expire ==
    /\ now < MaxClock
    /\ now' = now + 1
    /\ openid_cache' = {}
    /\ jwks_cache' = {}
    /\ UNCHANGED << tenant_vars, raw_claims, user_info, settings, pc, entry, tok, jwks,
                    attempt, last_error, gets, started, sampled, outcome >>

\* Time passes.
Tick ==
    /\ now < MaxClock
    /\ now' = now + 1
    /\ UNCHANGED << tenant_vars, raw_claims, user_info, settings, openid_cache, jwks_cache, pc, entry, tok, jwks,
                    attempt, last_error, gets, started, sampled, outcome >>

\* What the provider may answer to a GET.
OpenidAnswers == { HttpOk(d) : d \in OpenidDocs } \cup {HttpFailure}
JwksAnswers == { HttpOk(k) : k \in KeySets } \cup {HttpFailure}

Next ==
    \/ \E h \in AuthHeaders : Request(EventLoop, h)
    \/ OpenidLookup(EventLoop)
    \/ \E resp \in OpenidAnswers : OpenidResponse(EventLoop, resp)
    \/ \E resp \in JwksAnswers : JwksResponse(EventLoop, resp)
    \/ Decode(EventLoop)
    \/ read_current_user(EventLoop)
    \/ Return(EventLoop)
    \/ Tick

Spec == Init /\ [][Next]_vars

\* The requests of Spec whose token, if any, carries no nbf and no at_hash
\* claim, with the progress the code has: the synchronous steps of a call
\* are taken, and each GET ends, with a response or with an exception, the
\* client's timeout of 5 seconds at the latest.
LiveHeaders ==
    { h \in AuthHeaders :
        \A t \in h.token : DOMAIN t.payload \subseteq {"iss", "aud", "exp"} }

NextLive ==
    \/ \E h \in LiveHeaders : Request(EventLoop, h)
    \/ OpenidLookup(EventLoop)
    \/ \E resp \in OpenidAnswers : OpenidResponse(EventLoop, resp)
    \/ \E resp \in JwksAnswers : JwksResponse(EventLoop, resp)
    \/ Decode(EventLoop)
    \/ read_current_user(EventLoop)
    \/ Return(EventLoop)
    \/ Tick

SpecLive ==
    /\ Init
    /\ [][NextLive]_vars
    /\ WF_vars(OpenidLookup(EventLoop))
    /\ WF_vars(\E resp \in OpenidAnswers : OpenidResponse(EventLoop, resp))
    /\ WF_vars(\E resp \in JwksAnswers : JwksResponse(EventLoop, resp))
    /\ WF_vars(Decode(EventLoop))

NextConc ==
    \E p \in Threads :
        \/ GetJwks(p)
        \/ OpenidLookup(p)
        \/ \E resp \in OpenidAnswers : OpenidResponse(p, resp)
        \/ \E resp \in JwksAnswers : JwksResponse(p, resp)
        \/ Return(p)

SpecConc == Init /\ [][NextConc]_vars

----------------------------------------------------------------------------
(* get_jwks called with several settings objects *)

\* What a GET of URL u may be answered.
OpenidAnswersAt(u) ==
    {HttpFailure}
    \cup IF u = TenantA.openid_config_url THEN { HttpOk(d) : d \in OpenidDocs }
         ELSE IF u = TenantB.openid_config_url THEN {HttpOk(OpenidDocB)}
         ELSE {}
JwksAnswersAt(u) ==
    {HttpFailure}
    \cup IF u = "https://idp/keys" THEN { HttpOk(k) : k \in KeySets }
         ELSE IF u = "https://idp2/keys" THEN {HttpOk(KeySetB)}
         ELSE {}

\* Mutant: one entry for all settings objects.
CacheKey_Shared(s) == TenantA

\* The key lru_cache files a call under: its argument, the settings object
\* (hashed by identity, AzureADSettings defining neither __eq__ nor __hash__).
CacheKey(s) == s

\* A thread calls get_jwks(s): a hit in get_jwks' cache returns the entry
\* of s; a miss runs the function up to its first lookup or GET.
GetJwksOf(p, s) ==
    /\ pc[p] = "idle"
    /\ entry' = [entry EXCEPT ![p] = "get_jwks"]
    /\ started' = [started EXCEPT ![p] = now]
    /\ arg' = [arg EXCEPT ![p] = s]
    /\ IF lru_jwks[CacheKey(s)] # {}
       THEN /\ Finish(p, Returned(CHOOSE k \in lru_jwks[CacheKey(s)] : TRUE))
            /\ gets' = [gets EXCEPT ![p] = NoGets]
            /\ UNCHANGED url
       ELSE IF Falsy(s.jwks_uri)
       THEN /\ pc' = [pc EXCEPT ![p] = "openid_lookup"]
            /\ gets' = [gets EXCEPT ![p] = NoGets]
            /\ UNCHANGED << url, outcome >>
       ELSE /\ pc' = [pc EXCEPT ![p] = "jwks_get"]
            /\ gets' = [gets EXCEPT ![p] = [NoGets EXCEPT !.jwks = 1]]
            /\ url' = [url EXCEPT ![p] = s.jwks_uri]
            /\ UNCHANGED outcome
    /\ UNCHANGED << lru_openid, lru_jwks, raw_claims, user_info, settings, now,
                    openid_cache, jwks_cache, tok, jwks, attempt, last_error, sampled >>

\* get_jwks from config = get_openid_config(settings) on: the jwks_uri
\* check, then the GET of config["jwks_uri"] is sent.
UseConfigOf(p, config) ==
    IF Falsy(Get(config, "jwks_uri"))
    THEN /\ Finish(p, Raised("RuntimeError"))
         /\ UNCHANGED << gets, url >>
    ELSE /\ pc' = [pc EXCEPT ![p] = "jwks_get"]
         /\ gets' = [gets EXCEPT ![p].jwks = @ + 1]
         /\ url' = [url EXCEPT ![p] = config.jwks_uri]
         /\ UNCHANGED outcome

\* get_openid_config(settings) behind its lru_cache.
OpenidLookupOf(p) ==
    /\ pc[p] = "openid_lookup"
    /\ arg[p] # NoSettings
    /\ IF lru_openid[CacheKey(arg[p])] # {}
       THEN UseConfigOf(p, CHOOSE d \in lru_openid[CacheKey(arg[p])] : TRUE)
       ELSE /\ pc' = [pc EXCEPT ![p] = "openid_get"]
            /\ gets' = [gets EXCEPT ![p].openid = @ + 1]
            /\ url' = [url EXCEPT ![p] = arg[p].openid_config_url]
            /\ UNCHANGED outcome
    /\ UNCHANGED << lru_openid, lru_jwks, arg, raw_claims, user_info, settings, now,
                    openid_cache, jwks_cache, entry, tok, jwks, attempt, last_error,
                    started, sampled >>

\* The GET of settings.openid_config_url ends.
OpenidResponseOf(p, resp) ==
    /\ pc[p] = "openid_get"
    /\ arg[p] # NoSettings
    /\ lru_openid' = [lru_openid EXCEPT ![CacheKey(arg[p])] = Memoize(@, resp)]
    /\ IF ~ resp.ok
       THEN /\ Finish(p, Raised("HTTPError"))
            /\ UNCHANGED << gets, url >>
       ELSE UseConfigOf(p, Json(resp))
    /\ UNCHANGED << lru_jwks, arg, raw_claims, user_info, settings, now, openid_cache,
                    jwks_cache, entry, tok, jwks, attempt, last_error, started, sampled >>

\* The GET of the key set ends.
JwksResponseOf(p, resp) ==
    /\ pc[p] = "jwks_get"
    /\ arg[p] # NoSettings
    /\ lru_jwks' = [lru_jwks EXCEPT ![CacheKey(arg[p])] = Memoize(@, resp)]
    /\ IF ~ resp.ok
       THEN Finish(p, Raised("HTTPError"))
       ELSE Finish(p, Returned(Json(resp)))
    /\ UNCHANGED << lru_openid, arg, url, gets, raw_claims, user_info, settings, now,
                    openid_cache, jwks_cache, entry, tok, jwks, attempt, last_error,
                    started, sampled >>

InitTenants == Init /\ settings = TenantA

NextTenants ==
    \E p \in Threads :
        \/ \E s \in TenantSettings : GetJwksOf(p, s)
        \/ OpenidLookupOf(p)
        \/ \E resp \in OpenidAnswersAt(url[p]) : OpenidResponseOf(p, resp)
        \/ \E resp \in JwksAnswersAt(url[p]) : JwksResponseOf(p, resp)
        \/ Return(p)

SpecTenants == InitTenants /\ [][NextTenants]_vars

\* The /auth/me route hands the claims to build_user_info_from_claims.
InitProject ==
    /\ settings = AzureADSettings(CHOOSE env \in Environments :
                                      "AZURE_AD_AUDIENCE" \in DOMAIN env)
    /\ lru_openid = [s \in TenantSettings |-> {}]
    /\ lru_jwks = [s \in TenantSettings |-> {}]
    /\ arg = [p \in Threads |-> NoSettings]
    /\ url = [p \in Threads |-> NoUrl]
    /\ raw_claims \in ClaimsMaps
    /\ user_info = PyNone
    /\ now = 0
    /\ openid_cache = {}
    /\ jwks_cache = {}
    /\ pc = [p \in Threads |-> "idle"]
    /\ entry = [p \in Threads |-> "none"]
    /\ tok = [p \in Threads |-> NoToken]
    /\ jwks = [p \in Threads |-> {}]
    /\ attempt = [p \in Threads |-> 0]
    /\ last_error = [p \in Threads |-> None]
    /\ gets = [p \in Threads |-> NoGets]
    /\ started = [p \in Threads |-> 0]
    /\ sampled = [p \in Threads |-> 0]
    /\ outcome = [p \in Threads |-> NoOutcome]

Project ==
    /\ user_info = PyNone
    /\ user_info' = build_user_info_from_claims(raw_claims)
    /\ UNCHANGED << tenant_vars, raw_claims, settings, now, openid_cache, jwks_cache, pc, entry,
                    tok, jwks, attempt, last_error, gets, started, sampled, outcome >>

NextProject == Project

SpecProject == InitProject /\ [][NextProject]_vars

----------------------------------------------------------------------------
(* The error kinds of the specification, as the code raises them *)

JwtErrors ==
    { "The specified alg value is not allowed", "Signature verification failed.",
      "The token is not yet valid (nbf)", "Signature has expired.",
      "Invalid audience", "Invalid issuer",
      "No access_token provided to compare against at_hash claim." }

MissingKeyId == Unauthorized("Token sin 'kid' en el encabezado")
UnknownSigningKey == Unauthorized("No se encontro clave de firma para el token")
TokenRejected(o) ==
    /\ o.kind = "HTTPException"
    /\ o.detail \in { "Token invalido: " \o m : m \in JwtErrors }
    /\ o.claims = {}
UpstreamUnavailable(o) == o.kind = "HTTPError"
MalformedProviderMetadata(o) == o.kind = "RuntimeError"

(* What the claims speak about *)

\* A request that carried a bearer token has ended.
Served(p) == pc[p] = "done" /\ entry[p] = "gateway" /\ tok[p] # NoToken
KeysOf(p) == CHOOSE k \in jwks[p] : TRUE
KidOf(p) == Get(tok[p].header, "kid")
\* The key set was available and holds a key with the token's kid.
KeyResolved(p) ==
    /\ jwks[p] # {}
    /\ tok[p].parses
    /\ ~ Falsy(KidOf(p))
    /\ \E i \in DOMAIN KeysOf(p).keys : KeysOf(p).keys[i].kid = KidOf(p)
\* The token carries the RS256 signature of the first key with its kid.
SignatureValid(p) ==
    /\ KeyResolved(p)
    /\ tok[p].header.alg = "RS256"
    /\ LET keys == KeysOf(p).keys
           first == CHOOSE i \in DOMAIN keys :
                      /\ keys[i].kid = KidOf(p)
                      /\ \A j \in DOMAIN keys : keys[j].kid = KidOf(p) => i <= j
       IN  keys[first].n = tok[p].signer
AcceptedIssuers == { settings.issuer, "https://sts.windows.net/tid/" }
AcceptedAudiences == { settings.audience, settings.client_id }
IssuerAccepted(p) ==
    "iss" \in DOMAIN tok[p].payload /\ tok[p].payload.iss \in AcceptedIssuers
AudienceAccepted(p) ==
    /\ "aud" \in DOMAIN tok[p].payload
    /\ Elems(tok[p].payload.aud) \cap AcceptedAudiences # {}
NotExpired(p) == "exp" \in DOMAIN tok[p].payload => tok[p].payload.exp >= now
ReturnedClaims(p) == outcome[p] = Returned(tok[p].payload)

----------------------------------------------------------------------------
(* Claims *)

\* C1 (as stated): every token with a valid signature of a key of the cached
\* key set, not expired, with an accepted issuer and an accepted audience,
\* is accepted and its payload returned.
C1_Original ==
    \A p \in Threads :
        (Served(p) /\ SignatureValid(p) /\ NotExpired(p)
            /\ IssuerAccepted(p) /\ AudienceAccepted(p))
        => ReturnedClaims(p)

\* C1 (amended): such a token is accepted and its payload returned when, in
\* addition, its nbf (if any) had passed when the request began and it
\* carries no at_hash claim; all four (audience, issuer) pairs are accepted.
C1_Accepts ==
    \A p \in Threads :
        (Served(p) /\ SignatureValid(p) /\ NotExpired(p)
            /\ IssuerAccepted(p) /\ AudienceAccepted(p)
            /\ ("nbf" \in DOMAIN tok[p].payload => tok[p].payload.nbf <= started[p])
            /\ "at_hash" \notin DOMAIN tok[p].payload)
        => ReturnedClaims(p)

\* A legacy-issuer token for the bare client id was accepted on the last pair.
C1_Witness ==
    \E p \in Threads :
        /\ Served(p) /\ ReturnedClaims(p)
        /\ settings.audience # settings.client_id
        /\ Get(tok[p].payload, "iss") = "https://sts.windows.net/tid/"
        /\ "aud" \in DOMAIN tok[p].payload /\ tok[p].payload.aud = << "cid" >>
        /\ attempt[p] = 3
        /\ last_error[p] = "Invalid issuer"

\* C2: a validly signed token whose issuer is neither the configured nor the
\* legacy issuer is rejected with TokenRejected, whatever its audience; no
\* claims are returned.
C2_ForeignIssuerRejected ==
    \A p \in Threads :
        (Served(p) /\ SignatureValid(p) /\ ~ IssuerAccepted(p))
        => TokenRejected(outcome[p])

C2_Witness ==
    \E p \in Threads :
        /\ Served(p) /\ SignatureValid(p) /\ NotExpired(p) /\ AudienceAccepted(p)
        /\ "iss" \in DOMAIN tok[p].payload /\ ~ IssuerAccepted(p)
        /\ outcome[p] = Unauthorized("Token invalido: Invalid issuer")

\* C3 (as stated): a validly signed, unexpired token with an accepted issuer
\* whose aud claim is absent, or holds neither accepted audience, is rejected
\* with TokenRejected.
C3_Original ==
    \A p \in Threads :
        (Served(p) /\ SignatureValid(p) /\ NotExpired(p) /\ IssuerAccepted(p)
            /\ ~ AudienceAccepted(p))
        => TokenRejected(outcome[p])

\* C4: a token that had expired when its request began is rejected with
\* TokenRejected once its key is resolved, also when signature, issuer and
\* audience all match.
C4_ExpiredRejected ==
    \A p \in Threads :
        (Served(p) /\ KeyResolved(p)
            /\ "exp" \in DOMAIN tok[p].payload /\ tok[p].payload.exp < started[p])
        => TokenRejected(outcome[p])

C4_Witness ==
    \E p \in Threads :
        /\ Served(p) /\ SignatureValid(p) /\ IssuerAccepted(p) /\ AudienceAccepted(p)
        /\ "exp" \in DOMAIN tok[p].payload /\ tok[p].payload.exp < started[p]
        /\ outcome[p] = Unauthorized("Token invalido: Signature has expired.")

\* C5: a token whose kid is present and matches no key of the key set fails
\* with UnknownSigningKey, and no jwt.decode attempt has been made.
C5_UnknownKid ==
    \A p \in Threads :
        (Served(p) /\ jwks[p] # {} /\ tok[p].parses /\ ~ Falsy(KidOf(p))
            /\ \A i \in DOMAIN KeysOf(p).keys : KeysOf(p).keys[i].kid # KidOf(p))
        => (outcome[p] = UnknownSigningKey /\ attempt[p] = 0 /\ last_error[p] = None)

C5_Witness ==
    \E p \in Threads :
        /\ Served(p) /\ jwks[p] = {KeySetOld} /\ KidOf(p) = "k2"
        /\ tok[p].signer = "m2"
        /\ outcome[p] = UnknownSigningKey

\* C6 (as stated): concurrent first-use callers of get_jwks never have two
\* GETs of the same document in flight: a caller that arrives while a fetch
\* is in flight waits for it.
C6_Original ==
    /\ Cardinality({ p \in Threads : pc[p] = "jwks_get" }) <= 1
    /\ Cardinality({ p \in Threads : pc[p] = "openid_get" }) <= 1

\* C7: once the key set is cached, every call gets the cached key set, the
\* cache entry never changes and no step issues an outbound GET.
C7_CachedKeySet ==
    /\ [](\A p \in Threads : jwks[p] # {} => jwks[p] = jwks_cache)
    /\ [][jwks_cache # {} =>
            /\ jwks_cache' = jwks_cache
            /\ \A p \in Threads :
                 /\ gets'[p].jwks <= gets[p].jwks
                 /\ gets'[p].openid <= gets[p].openid
                 /\ pc'[p] \notin {"openid_get", "jwks_get"}]_vars

\* A request was served from the cached key set without any outbound GET.
C7_Witness ==
    \E p \in Threads :
        /\ Served(p) /\ jwks_cache # {} /\ jwks[p] = jwks_cache
        /\ gets[p] = NoGets
        /\ ReturnedClaims(p)

\* C8: a request that ends with a failed GET has issued each GET at most
\* once, and the entry of the document it failed to fetch is empty.
C8_FailureNotMemoized ==
    \A p \in Threads :
        (pc[p] = "done" /\ UpstreamUnavailable(outcome[p]))
        => /\ gets[p].openid <= 1 /\ gets[p].jwks <= 1
           /\ gets[p].openid + gets[p].jwks >= 1
           /\ jwks_cache = {}
           /\ (gets[p].jwks = 0 => openid_cache = {})

\* A request found the OpenID configuration cached and the key set not (the
\* key-set GET of an earlier request had failed), fetched the key set again
\* and was served.
C8_Witness ==
    \E p \in Threads :
        /\ Served(p) /\ ReturnedClaims(p)
        /\ Falsy(settings.jwks_uri)
        /\ gets[p] = [openid |-> 0, jwks |-> 1]

\* C9 (as stated): a discovery document without jwks_uri fails the request
\* and is not kept as the cached discovery document.
C9_Original ==
    \A p \in Threads :
        (pc[p] = "done" /\ MalformedProviderMetadata(outcome[p]))
        => openid_cache = {}

\* C10 (as stated), for requests whose key set is available: a bearer token
\* whose header segment yields no kid fails with MissingKeyId, no
\* verification attempt made.
C10_Original ==
    \A p \in Threads :
        (Served(p) /\ jwks[p] # {} /\ (~ tok[p].parses \/ Falsy(KidOf(p))))
        => (outcome[p] = MissingKeyId /\ last_error[p] = None)

\* The header is absent, is not `Bearer <token>` (the scheme in any case),
\* or carries only blanks after the scheme.
NoBearerToken(h) ==
    \/ ~ h.present
    \/ h.scheme \notin {"Bearer", "bearer", "BEARER"}
    \/ ~ h.blank
    \/ h.token = {}
HeadersWithoutToken == { h \in AuthHeaders : NoBearerToken(h) }
MissingCredentials(o) ==
    /\ o.kind = "HTTPException"
    /\ o.detail \in { "Falta encabezado Authorization con Bearer token",
                      "Token Bearer vacio" }

\* C11: a request whose Authorization header is absent, is not of the form
\* `Bearer <token>`, or whose token is empty after trimming ends at once
\* with the MissingCredentials 401; validate_jwt is not entered: no token
\* is taken, no key set is looked up, no GET is issued and both caches are
\* left as they were.  (The settings object exists.)
C11_MissingCredentials ==
    [][ \A h \in IF pc[EventLoop] = "idle" /\ settings # NoSettings
                  THEN HeadersWithoutToken ELSE {} :
          Request(EventLoop, h)
          => /\ pc'[EventLoop] = "done"
             /\ MissingCredentials(outcome'[EventLoop])
             /\ tok'[EventLoop] = NoToken
             /\ jwks'[EventLoop] = {}
             /\ gets'[EventLoop] = NoGets
             /\ openid_cache' = openid_cache
             /\ jwks_cache' = jwks_cache ]_vars

\* A header "Bearer" followed by blanks only was refused while the key set
\* was not cached: nothing was fetched.
C11_Witness ==
    /\ pc[EventLoop] = "done"
    /\ entry[EventLoop] = "gateway"
    /\ settings # NoSettings
    /\ outcome[EventLoop] = Unauthorized("Token Bearer vacio")
    /\ gets[EventLoop] = NoGets
    /\ jwks_cache = {}

\* The failures a request to the gateway can end with that the HTTP layer
\* answers as unauthorized: the HTTPException(401) of the code.
UnauthorizedResponse(o) ==
    \/ MissingCredentials(o)
    \/ o = MissingKeyId
    \/ o = UnknownSigningKey
    \/ TokenRejected(o)

\* C12 (as stated): every request to the gateway that fails, whatever the
\* cause, ends with one of the error kinds that the HTTP layer answers as
\* unauthorized; no failure leaves the dependency as anything else.
C12_Original ==
    (pc[EventLoop] = "done" /\ entry[EventLoop] = "gateway"
        /\ settings # NoSettings /\ outcome[EventLoop].kind # "return")
    => UnauthorizedResponse(outcome[EventLoop])

\* C13 (as stated): when AZURE_AD_TENANT_ID or AZURE_AD_CLIENT_ID is missing
\* or empty the process fails at startup, so in no reachable state has a
\* request been accepted while the settings are missing.
C13_Original ==
    settings = NoSettings
    => \A p \in Threads : pc[p] = "idle" /\ entry[p] = "none"

\* C14: a validation call never fetches the key set more than once, so a
\* token whose kid is not in the key set costs at most one fetch (none when
\* the key set is cached) before the call fails with UnknownSigningKey; it
\* is never the start of a refresh loop.
C14_AtMostOneFetch ==
    \A p \in Threads :
        /\ gets[p].jwks <= 1
        /\ gets[p].openid <= 1
        /\ (Served(p) /\ jwks[p] # {} /\ tok[p].parses /\ ~ Falsy(KidOf(p))
                /\ \A i \in DOMAIN KeysOf(p).keys : KeysOf(p).keys[i].kid # KidOf(p))
           => (outcome[p] = UnknownSigningKey /\ gets[p].jwks <= 1)

\* The key set was fetched during the request, the token's kid was not in
\* it, and the request failed after that single fetch.
C14_Witness ==
    /\ Served(EventLoop)
    /\ outcome[EventLoop] = UnknownSigningKey
    /\ gets[EventLoop].jwks = 1
    /\ jwks_cache # {}

(* The projection, under SpecProject *)

\* build_user_info_from_claims has been applied to raw_claims.
Projected == user_info # PyNone
IdentityFields == {"id", "name", "email", "groups", "raw_claims"}

\* C15: build_user_info_from_claims is total: for every claims dict,
\* whichever of oid, sub, name, preferred_username, upn, email, emails and
\* groups are absent, empty or of another type, it returns a dict with the
\* fields id, name, email, groups and raw_claims and raises nothing; groups
\* is a list, and raw_claims is the dict it was given.
C15_Total ==
    Projected
    => /\ DOMAIN user_info = IdentityFields
       /\ \A f \in {"id", "name", "email"} : user_info[f].t # "raise"
       /\ IsList(user_info.groups)
       /\ user_info.raw_claims = raw_claims

\* The projection of a dict whose emails claim is the empty list and whose
\* groups claim is not a list.
C15_Witness ==
    /\ Projected
    /\ "emails" \in DOMAIN raw_claims
    /\ raw_claims["emails"] = PyList(<< >>)
    /\ "groups" \in DOMAIN raw_claims
    /\ ~ IsList(raw_claims["groups"])
    /\ DOMAIN raw_claims \cap {"preferred_username", "upn", "email", "oid", "sub"} = {}
    /\ user_info.email = PyNone

\* A claim value that is present and not empty.
NonEmpty(v) ==
    \/ v.t = "str" /\ v.s # ""
    \/ v.t = "int" /\ v.n # 0
    \/ v.t = "list" /\ Len(v.items) > 0
Claim(k) == IF k \in DOMAIN raw_claims THEN raw_claims[k] ELSE PyNone

\* C16: the projected email is the first non-empty value among
\* preferred_username, upn and email, in this order; when none is
\* non-empty it is the first element of a non-empty list-valued emails
\* claim; otherwise it is absent.
C16_EmailOrder ==
    Projected
    => user_info.email =
         IF NonEmpty(Claim("preferred_username")) THEN Claim("preferred_username")
         ELSE IF NonEmpty(Claim("upn")) THEN Claim("upn")
         ELSE IF NonEmpty(Claim("email")) THEN Claim("email")
         ELSE IF Claim("emails").t = "list" /\ Len(Claim("emails").items) > 0
              THEN Claim("emails").items[1]
         ELSE PyNone

\* preferred_username, upn and email are all present and preferred_username
\* was projected.
C16_Witness ==
    /\ Projected
    /\ Claim("preferred_username") = PyStr("a@b.com")
    /\ Claim("upn") = PyStr("u@b.com")
    /\ Claim("email") = PyStr("e@b.com")
    /\ user_info.email = PyStr("a@b.com")

\* C17: the projected groups are the elements of a list-valued groups claim,
\* in the same order, each as its string form (a string as it is, the
\* number 7 as "7"); a groups claim that is absent, empty or not a list
\* gives the empty list.
C17_Groups ==
    Projected
    => IF Claim("groups").t = "list"
       THEN /\ Len(user_info.groups.items) = Len(Claim("groups").items)
            /\ \A i \in DOMAIN Claim("groups").items :
                 LET g == Claim("groups").items[i]
                     r == user_info.groups.items[i]
                 IN  /\ r.t = "str"
                     /\ g.t = "str" => r = g
                     /\ (g.t = "int" /\ g.n = 7) => r.s = "7"
       ELSE user_info.groups = PyList(<< >>)

\* A list holding a number before a string was projected in that order.
C17_Witness ==
    /\ Projected
    /\ Claim("groups") = PyList(<< PyInt(7), PyStr("g1") >>)
    /\ user_info.groups = PyList(<< PyStr("7"), PyStr("g1") >>)

\* C18: the projected id is the oid claim when it is non-empty, otherwise
\* the sub claim, otherwise absent; sub is never preferred over a non-empty
\* oid.
C18_SubjectId ==
    Projected
    => user_info.id =
         IF NonEmpty(Claim("oid")) THEN Claim("oid")
         ELSE IF "sub" \in DOMAIN raw_claims THEN raw_claims["sub"]
         ELSE PyNone

\* Both oid and sub are present and non-empty, and oid was projected.
C18_Witness ==
    /\ Projected
    /\ Claim("oid") = PyStr("o1")
    /\ Claim("sub") = PyStr("s1")
    /\ user_info.id = PyStr("o1")

(* The verification loop *)

\* The (audience, issuer) pairs in the order the specification gives them.
PairsInOrder ==
    << << settings.audience, settings.issuer >>,
       << settings.audience, "https://sts.windows.net/tid/" >>,
       << settings.client_id, settings.issuer >>,
       << settings.client_id, "https://sts.windows.net/tid/" >> >>
\* What verifying p's token against the i-th pair (i = 1 .. 4) gives now.
VerifyAgainst(p, i) ==
    jwt_decode(tok[p], get_signing_key(tok[p], KeysOf(p)).key[1],
               PairsInOrder[i][1], PairsInOrder[i][2], now)
\* p makes a verification attempt in this step.
Attempts(p) ==
    pc[p] = "decode" /\ (pc'[p] # "decode" \/ attempt'[p] # attempt[p])

\* C19: validate_jwt tries (audience, issuer), (audience, legacy issuer),
\* (client id, issuer), (client id, legacy issuer) in this order, starting
\* with the first; an attempt that verifies ends the call at once with the
\* token's claims, a failed one is followed by the next pair, and the call
\* makes at most 4 attempts.
C19_PairOrder ==
    /\ [](\A p \in Threads : attempt[p] \in 0 .. 3)
    /\ [][ \A p \in Threads :
             (pc[p] # "decode" /\ pc'[p] = "decode") => attempt'[p] = 0 ]_vars
    /\ [][ \A p \in Threads :
             Attempts(p)
             => IF VerifyAgainst(p, attempt[p] + 1).ok
                THEN /\ pc'[p] = "done"
                     /\ outcome'[p] = Returned(tok[p].payload)
                     /\ attempt'[p] = attempt[p]
                ELSE IF attempt[p] < 3
                THEN /\ pc'[p] = "decode"
                     /\ attempt'[p] = attempt[p] + 1
                ELSE /\ pc'[p] = "done"
                     /\ outcome'[p].kind = "HTTPException" ]_vars
    /\ [][ \A p \in Threads : pc[p] = "done" => pc'[p] \in {"done", "idle"} ]_vars

\* The first two pairs failed on the audience and the third, the client id
\* with the configured issuer, verified and ended the call.
C19_Witness ==
    /\ Served(EventLoop)
    /\ ReturnedClaims(EventLoop)
    /\ attempt[EventLoop] = 2
    /\ last_error[EventLoop] = "Invalid audience"

\* C20: when all 4 pairs fail, validate_jwt raises one 401 whose message is
\* "Token invalido: " followed by the error of the last attempt, the one
\* against (client id, legacy issuer); the errors of the earlier attempts
\* are not part of it.
C20_LastError ==
    [][ \A p \in Threads :
          (Attempts(p) /\ pc'[p] = "done" /\ outcome'[p].kind # "return")
          => /\ attempt[p] = 3
             /\ outcome'[p] =
                  Unauthorized("Token invalido: "
                      \o jwt_decode(tok[p], get_signing_key(tok[p], KeysOf(p)).key[1],
                                    settings.client_id, "https://sts.windows.net/tid/",
                                    now).msg)
             /\ TokenRejected(outcome'[p]) ]_vars

\* The attempts against the configured audience failed on the audience, the
\* last one failed on the issuer, and only that error was reported.
C20_Witness ==
    /\ Served(EventLoop)
    /\ outcome[EventLoop] = Unauthorized("Token invalido: Invalid issuer")
    /\ settings.audience # settings.client_id
    /\ "aud" \in DOMAIN tok[EventLoop].payload
    /\ tok[EventLoop].payload.aud = << ClientId >>
    /\ "nbf" \notin DOMAIN tok[EventLoop].payload
    /\ "exp" \notin DOMAIN tok[EventLoop].payload

\* What verifying p's token against the i-th pair gives when the clock
\* shows t.
VerifyAt(p, i, t) ==
    jwt_decode(tok[p], get_signing_key(tok[p], KeysOf(p)).key[1],
               PairsInOrder[i][1], PairsInOrder[i][2], t)

\* C21 (as stated): all attempts of one validate_jwt call compare against
\* the clock as it was when the call began, so the call accepts the token
\* exactly when some pair verifies at that time, however the clock moves
\* between the attempts.  (The time the call began is taken to be as late
\* as the first attempt.)
C21_Original ==
    \A p \in Threads :
        (Served(p) /\ KeyResolved(p))
        => (ReturnedClaims(p) <=> \E i \in 1 .. 4 : VerifyAt(p, i, sampled[p]).ok)

\* C22 (as stated): the kid is read from the header before the key set is
\* resolved, so a token that parses and has no kid ends with MissingKeyId
\* and no GET of the OpenID configuration or of the key set is issued for
\* it, whatever the state of the caches and of the provider.
C22_Original ==
    \A p \in Threads :
        (pc[p] = "done" /\ entry[p] = "gateway" /\ tok[p] # NoToken
            /\ tok[p].parses /\ Falsy(KidOf(p)))
        => (outcome[p] = MissingKeyId /\ gets[p] = NoGets)

\* C23: each of the two caches holds at most one entry for the settings
\* object and is filled at most once: an entry that is there is never
\* changed or cleared, whatever requests follow, whatever key set the
\* provider publishes meanwhile and however much time passes; and no step
\* changes the settings object.
C23_PopulatedOnce ==
    /\ [](Cardinality(openid_cache) <= 1 /\ Cardinality(jwks_cache) <= 1)
    /\ [][ /\ openid_cache # {} => openid_cache' = openid_cache
           /\ jwks_cache # {} => jwks_cache' = jwks_cache
           /\ settings' = settings ]_vars

\* The key set cached before the rotation is still the entry after time has
\* passed and a token signed with the rotated-in key k2 was turned down
\* without any GET.
C23_Witness ==
    /\ jwks_cache = {KeySetOld}
    /\ now = MaxClock
    /\ Served(EventLoop)
    /\ KidOf(EventLoop) = "k2"
    /\ tok[EventLoop].signer = "m2"
    /\ outcome[EventLoop] = UnknownSigningKey
    /\ gets[EventLoop] = NoGets

\* C24: with AZURE_AD_JWKS_URI configured, get_jwks never looks up or
\* fetches the OpenID configuration and its cache stays empty; without it,
\* a GET of the key set is only issued once the OpenID configuration, with
\* its jwks_uri, is in the cache.
C24_ExplicitUrl ==
    settings # NoSettings
    => IF ~ Falsy(settings.jwks_uri)
       THEN /\ openid_cache = {}
            /\ \A p \in Threads :
                 /\ gets[p].openid = 0
                 /\ pc[p] \notin {"openid_lookup", "openid_get"}
       ELSE \A p \in Threads :
              (pc[p] = "jwks_get" \/ gets[p].jwks > 0)
              => \E d \in openid_cache : ~ Falsy(Get(d, "jwks_uri"))

\* With AZURE_AD_JWKS_URI configured a request fetched the key set with a
\* single GET and was served, the OpenID configuration never fetched.
C24_Witness ==
    /\ settings # NoSettings
    /\ ~ Falsy(settings.jwks_uri)
    /\ Served(EventLoop)
    /\ ReturnedClaims(EventLoop)
    /\ gets[EventLoop] = [openid |-> 0, jwks |-> 1]
    /\ openid_cache = {}

\* C26: a request enters validate_jwt at most once: its token is taken once
\* and, once the dependency has ended, nothing of the validation runs
\* again (no further GET, no further attempt) until the response is sent;
\* a failure stays the failure it was; and the user info is built only
\* from the claims of a validation that succeeded.
C26_OnceAndProject ==
    /\ [](user_info # PyNone
            => /\ pc[EventLoop] = "done"
               /\ entry[EventLoop] = "gateway"
               /\ outcome[EventLoop] = Returned(tok[EventLoop].payload)
               /\ raw_claims = PyClaims(tok[EventLoop].payload)
               /\ DOMAIN user_info = IdentityFields)
    /\ [][ \A p \in Threads :
             /\ (pc[p] # "idle" /\ pc'[p] # "idle") => tok'[p] = tok[p]
             /\ pc[p] = "done"
                => /\ pc'[p] \in {"done", "idle"}
                   /\ pc'[p] = "done"
                      => /\ outcome'[p] = outcome[p]
                         /\ gets'[p] = gets[p]
                         /\ attempt'[p] = attempt[p] ]_vars

\* The user info was built from the claims of an accepted token.
C26_Witness ==
    /\ Served(EventLoop)
    /\ ReturnedClaims(EventLoop)
    /\ user_info # PyNone
    /\ user_info.raw_claims = PyClaims(tok[EventLoop].payload)
    /\ user_info.groups = PyList(<< >>)

\* C27: verification is always asked for RS256, so a token whose header
\* declares another algorithm is never accepted, not even when its kid
\* names a key of the key set and its signature was made with that key's
\* material.
C27_FixedAlgorithm ==
    \A p \in Threads :
        (Served(p) /\ tok[p].parses /\ Get(tok[p].header, "alg") # "RS256")
        => /\ outcome[p].kind # "return"
           /\ KeyResolved(p)
              => outcome[p]
                   = Unauthorized("Token invalido: The specified alg value is not allowed")

\* A token declaring HS256, whose kid is in the key set and whose signature
\* was made with that key's material, was rejected for its algorithm.
C27_Witness ==
    /\ Served(EventLoop)
    /\ KeyResolved(EventLoop)
    /\ tok[EventLoop].header.alg = "HS256"
    /\ tok[EventLoop].signer = "m1"
    /\ KidOf(EventLoop) = "k1"
    /\ outcome[EventLoop]
         = Unauthorized("Token invalido: The specified alg value is not allowed")

\* C28: without AZURE_AD_JWKS_URI, a call whose GET of the OpenID
\* configuration succeeded and whose GET of the key set failed leaves the
\* configuration cached and the key-set cache empty; from then on no call
\* fetches the configuration again: a call that finds it cached goes
\* straight to the one GET of the key set (or fails on a document without
\* jwks_uri).
C28_DiscoveryKept ==
    /\ [](\A p \in Threads :
            /\ (pc[p] = "done" /\ UpstreamUnavailable(outcome[p])
                    /\ gets[p].jwks = 1 /\ Falsy(settings.jwks_uri))
               => (openid_cache # {} /\ jwks_cache = {})
            /\ pc[p] = "jwks_get" => gets[p].jwks = 1)
    /\ [][ \A p \in Threads :
             openid_cache # {}
             => /\ gets'[p].openid <= gets[p].openid
                /\ pc'[p] # "openid_get"
                /\ (pc[p] = "openid_lookup" /\ pc'[p] # "openid_lookup")
                   => \/ /\ pc'[p] = "jwks_get"
                         /\ gets'[p] = [openid |-> 0, jwks |-> 1]
                      \/ /\ pc'[p] = "done"
                         /\ MalformedProviderMetadata(outcome'[p])
                         /\ gets'[p] = NoGets ]_vars

\* A call found the OpenID configuration cached and the key set not, issued
\* the GET of the key set only, and that GET failed again.
C28_Witness ==
    /\ Falsy(settings.jwks_uri)
    /\ pc[EventLoop] = "done"
    /\ UpstreamUnavailable(outcome[EventLoop])
    /\ gets[EventLoop] = [openid |-> 0, jwks |-> 1]
    /\ openid_cache # {}
    /\ jwks_cache = {}

\* C29: every request to the gateway ends, with the claims or with one
\* failure, also when the provider does not answer; until then it has
\* issued at most one GET of the OpenID configuration and at most one of
\* the key set, never repeating one, and made at most 4 verification
\* attempts.
C29_Terminates ==
    /\ [](\A p \in Threads :
            /\ gets[p].openid <= 1 /\ gets[p].jwks <= 1
            /\ attempt[p] \in 0 .. 3
            /\ pc[p] = "done"
               <=> (outcome[p].kind \in {"return", "HTTPException", "HTTPError",
                                        "RuntimeError", "JWTError"})
            /\ outcome[p].kind = "return" => outcome[p].claims = {tok[p].payload})
    /\ (pc[EventLoop] # "idle") ~> (pc[EventLoop] = "done")

\* A request that issued both GETs and made all 4 attempts has ended.
C29_Witness ==
    /\ Served(EventLoop)
    /\ gets[EventLoop] = [openid |-> 1, jwks |-> 1]
    /\ attempt[EventLoop] = 3
    /\ TokenRejected(outcome[EventLoop])

----------------------------------------------------------------------------
(* C25 *)

\* What the provider publishes for a settings object: the documents at its
\* discovery URL, and the key sets at the jwks_uri of those documents.
DocsOf(s) == { Json(r) : r \in { a \in OpenidAnswersAt(s.openid_config_url) : a.ok } }
KeySetsOf(s) ==
    UNION { { Json(r) : r \in { a \in JwksAnswersAt(d.jwks_uri) : a.ok } } :
            d \in { c \in DocsOf(s) : ~ Falsy(Get(c, "jwks_uri")) } }

\* The threads inside a call of get_jwks(s) that has a GET in flight.
Fetching(s) == { p \in Threads : arg[p] = s /\ pc[p] \in {"openid_get", "jwks_get"} }

\* C25: the cache entries are keyed by the settings object: the entries of
\* a settings object hold only what its own URLs publish, get_jwks(s)
\* returns only a key set fetched from the URL of s, and an entry changes
\* only in a step of a call made with that settings object; a call made
\* with the other object, whether it populates, fails or is served from
\* the cache, leaves it as it was.
C25_KeyedBySettings ==
    /\ [](\A s \in TenantSettings :
            /\ lru_openid[s] \subseteq DocsOf(s)
            /\ lru_jwks[s] \subseteq KeySetsOf(s))
    /\ [](\A p \in Threads :
            (pc[p] = "done" /\ arg[p] \in TenantSettings /\ outcome[p].kind = "return")
                => outcome[p].claims \subseteq KeySetsOf(arg[p]))
    /\ [][\A s \in TenantSettings :
            (lru_openid'[s] # lru_openid[s] \/ lru_jwks'[s] # lru_jwks[s])
                => \E p \in Fetching(s) : pc'[p] # pc[p]]_vars

\* Both tenants' entries are populated, with different key sets, while one
\* call is served the second tenant's key set from the cache and another
\* call for the first tenant has failed.
C25_Witness ==
    /\ KeySetsOf(TenantA) \cap KeySetsOf(TenantB) = {}
    /\ lru_jwks[TenantA] # {} /\ lru_jwks[TenantB] = {KeySetB}
    /\ lru_openid[TenantA] # {} /\ lru_openid[TenantB] = {OpenidDocB}
    /\ \E p, q \in Threads :
        /\ pc[p] = "done" /\ arg[p] = TenantB /\ gets[p] = NoGets
        /\ outcome[p] = Returned(KeySetB)
        /\ pc[q] = "jwks_get" /\ arg[q] = TenantA

====
